---------------------------- MODULE Spec2Model ----------------------------
(***************************************************************************)
(* A model of the dorustos Chip-8 virtual machine (src/src/backend.rs) and *)
(* of the host loop that drives it (src/src/frontend.rs, src/src/main.rs). *)
(*                                                                         *)
(* The machine state is the Chip8 struct, field by field.  Every public    *)
(* method (load, tick, tick_timers, keypress) is one action; tick is fetch *)
(* followed by execute, and execute is one operator per match arm.  A      *)
(* Rust panic (index out of bounds, unimplemented!(), debug-build integer  *)
(* overflow) ends the process: it is recorded in the variable fault, and   *)
(* no action is enabled afterwards.                                        *)
(***************************************************************************)
EXTENDS Integers, Sequences, FiniteSets, TLC

(***************************************************************************)
(* Program constants (backend.rs lines 3-48, frontend.rs line 20).         *)
(***************************************************************************)
SCREEN_WIDTH == 64

SCREEN_HEIGHT == 32

SCREEN_SIZE == SCREEN_WIDTH * SCREEN_HEIGHT

RAM_SIZE == 4096

NUM_REGS == 16

STACK_SIZE == 16

START_ADDR == 512

NUM_KEYS == 16

FONTSET_SIZE == 80

FONTSET ==
  << 240, 144, 144, 144, 240,      32,  96,  32,  32, 112,
     240,  16, 240, 128, 240,     240,  16, 240,  16, 240,
     144, 144, 240,  16,  16,     240, 128, 240,  16, 240,
     240, 128, 240, 144, 240,     240,  16,  32,  64,  64,
     240, 144, 240, 144, 240,     240, 144, 240,  16, 240,
     240, 144, 240, 144, 144,     224, 144, 224, 144, 224,
     240, 128, 128, 128, 240,     224, 144, 144, 144, 224,
     240, 128, 240, 128, 240,     240, 128, 240, 128, 128 >>

TICKS_PER_FRAME == 10

(***************************************************************************)
(* Machine integer widths: u8 and u16 values are kept modulo 2^8 and 2^16. *)
(***************************************************************************)
U8 == 2^8

U16 == 2^16

(***************************************************************************)
(* Bounds of the model (not program constants).                            *)
(*   MaxKeys  : the host presses and releases the keys 0 .. MaxKeys-1      *)
(*   MaxLoads : load is called at most MaxLoads times in one run           *)
(*   MaxNops  : at most MaxNops consecutive 0x0000 words are executed      *)
(*              (unwritten memory is all 0x0000, a run of ~1800 no-ops)    *)
(***************************************************************************)
MaxKeys == 2

MaxLoads == 2

MaxNops == 2

(***************************************************************************)
(* Bit arithmetic on unsigned values, as the Rust operators compute it.    *)
(***************************************************************************)
\* a & b, bit by bit from the lowest
RECURSIVE BitAnd(_, _)
BitAnd(a, b) ==
  IF a = 0 \/ b = 0 THEN 0
  ELSE (a % 2) * (b % 2) + 2 * BitAnd(a \div 2, b \div 2)

\* a | b
BitOr(a, b) == a + b - BitAnd(a, b)

\* a ^ b
BitXor(a, b) == a + b - 2 * BitAnd(a, b)

Max(a, b) == IF a >= b THEN a ELSE b

Min(a, b) == IF a <= b THEN a ELSE b

(***************************************************************************)
(* State.                                                                  *)
(*   pc .. st     the fields of struct Chip8 (backend.rs 51-62)            *)
(*   fault        "none", or the panic that ended the process              *)
(*   hpc, tick_i  the host's position in main / run_game and the index of  *)
(*                its tick loop (used by HostSpec only)                    *)
(* History variables, written by the actions and read by no guard except   *)
(* the two bounds loads and nops:                                          *)
(*   lastOp, lastAddr  the word most recently fetched and its address      *)
(*   calls        the return addresses of the calls not yet returned from  *)
(*   loads, nops  number of load calls; length of the current no-op run    *)
(*   loaded       the bytes the last load call was given                   *)
(*   dtSet, dtCalls, stSet, stCalls  the value a timer was last set to and *)
(*                the number of tick_timers calls since, counted up to     *)
(*                that value                                               *)
(*   draws        the last two draws that completed since the last clear   *)
(***************************************************************************)
VARIABLES pc, ram, screen, v_reg, i_reg, sp, stack, keys, dt, st,
          fault, hpc, tick_i,
          lastOp, lastAddr, calls, loads, loaded, nops,
          dtSet, dtCalls, stSet, stCalls, draws

machine == <<pc, ram, screen, v_reg, i_reg, sp, stack, keys, dt, st>>

host == <<hpc, tick_i>>

history == <<lastOp, lastAddr, calls, loads, loaded, nops,
             dtSet, dtCalls, stSet, stCalls, draws>>

vars == <<machine, fault, host, history>>

(***************************************************************************)
(* Chip8::new (backend.rs 67-84), with the host at the start of main.      *)
(***************************************************************************)
New ==
  /\ pc = START_ADDR
  /\ ram = [a \in 0..(RAM_SIZE - 1) |->
              IF a < FONTSET_SIZE THEN FONTSET[a + 1] ELSE 0]
  /\ screen = [p \in 0..(SCREEN_SIZE - 1) |-> FALSE]
  /\ v_reg = [r \in 0..(NUM_REGS - 1) |-> 0]
  /\ i_reg = 0
  /\ sp = 0
  /\ stack = [s \in 0..(STACK_SIZE - 1) |-> 0]
  /\ keys = [k \in 0..(NUM_KEYS - 1) |-> FALSE]
  /\ dt = 0
  /\ st = 0

Init ==
  /\ New
  /\ fault = "none"
  /\ hpc = "new"
  /\ tick_i = 0
  /\ lastOp = -1
  /\ lastAddr = -1
  /\ calls = << >>
  /\ loads = 0
  /\ loaded = << >>
  /\ nops = 0
  /\ dtSet = 0
  /\ dtCalls = 0
  /\ stSet = 0
  /\ stCalls = 0
  /\ draws = << >>


(***************************************************************************)
(* Consecutive writes ram[base] = vals[1], ram[base + 1] = vals[2], ...,   *)
(* each bounds checked: the writes stop at the end of the RAM (where the   *)
(* access panics).                                                         *)
(***************************************************************************)
\* the cells lo..hi of vals, written one after the other (mem is never
\* empty: the first test only has mem evaluated before the halves are)
RECURSIVE WriteRange(_, _, _, _, _)
WriteRange(mem, base, vals, lo, hi) ==
  IF DOMAIN mem = {} \/ lo > hi THEN mem
  ELSE IF lo = hi THEN [mem EXCEPT ![base + lo - 1] = vals[lo]]
  ELSE LET mid == (lo + hi) \div 2
       IN WriteRange(WriteRange(mem, base, vals, lo, mid),
                     base, vals, mid + 1, hi)

\* (mutant: the slice ends one cell early)
WriteCellsShort(mem, base, vals) ==
  WriteRange(mem, base, vals, 1, Min(Len(vals), RAM_SIZE - base) - 1)

\* a short run of writes cell by cell, a long one in one pass over the RAM
WriteCells(mem, base, vals) ==
  IF Len(vals) <= 2 * FONTSET_SIZE
    THEN WriteRange(mem, base, vals, 1, Min(Len(vals), RAM_SIZE - base))
    ELSE [a \in 0..(RAM_SIZE - 1) |->
            IF a >= base /\ a < base + Len(vals)
              THEN vals[a - base + 1] ELSE mem[a]]

(***************************************************************************)
(* Chip8::load (backend.rs 131-135).  The slice ram[start..end] is bounds  *)
(* checked before copy_from_slice writes anything.                         *)
(***************************************************************************)
\* (mutant: the range check lets one byte too many through)
LoadFaultsLate(end) == end > RAM_SIZE + 1

\* &mut self.ram[start..end] panics when end is past the RAM
LoadFaults(end) == end > RAM_SIZE

Load(data) ==
  LET start == START_ADDR
      end == start + Len(data)
  IN /\ fault = "none"
     /\ loads' = loads + 1
     /\ loaded' = data
     /\ IF LoadFaults(end)
          THEN /\ fault' = "bounds"
               /\ UNCHANGED machine
          ELSE /\ ram' = WriteCells(ram, start, data)
               /\ UNCHANGED <<pc, screen, v_reg, i_reg, sp, stack, keys,
                              dt, st, fault>>
     /\ UNCHANGED <<lastOp, lastAddr, calls, nops,
                    dtSet, dtCalls, stSet, stCalls, draws>>

(***************************************************************************)
(* Chip8::keypress (backend.rs 122-124).  keys[idx] is bounds checked.     *)
(***************************************************************************)
Keypress(idx, pressed) ==
  /\ fault = "none"
  /\ IF idx >= NUM_KEYS
       THEN /\ fault' = "bounds"
            /\ UNCHANGED keys
       ELSE /\ keys' = [keys EXCEPT ![idx] = pressed]
            /\ UNCHANGED fault
  /\ UNCHANGED <<pc, ram, screen, v_reg, i_reg, sp, stack, dt, st>>
  /\ UNCHANGED history

(***************************************************************************)
(* Chip8::tick_timers (backend.rs 98-109).                                 *)
(***************************************************************************)
\* (mutant: the decrement without its guard, a wrapping u8 subtraction)
TimerStepWrapping(t) == (t + U8 - 1) % U8

TimerStep(t) == IF t > 0 THEN t - 1 ELSE t

TickTimers ==
  /\ fault = "none"
  /\ dt' = TimerStep(dt)
  /\ st' = TimerStep(st)
  /\ UNCHANGED <<pc, ram, screen, v_reg, i_reg, sp, stack, keys, fault>>
  /\ dtCalls' = Min(dtCalls + 1, dtSet)
  /\ stCalls' = Min(stCalls + 1, stSet)
  /\ UNCHANGED <<lastOp, lastAddr, calls, loads, loaded, nops,
                 dtSet, stSet, draws>>

(***************************************************************************)
(* Chip8::fetch (backend.rs 141-147): the big-endian word at pc.           *)
(***************************************************************************)
FetchFaults == pc >= RAM_SIZE \/ pc + 1 >= RAM_SIZE

Fetch == ram[pc] * 256 + ram[pc + 1]

(***************************************************************************)
(* Decode (backend.rs 156-159) and the operand fields the arms extract.    *)
(***************************************************************************)
\* (op & 0xF000) >> 12
Digit1(op) == (op \div \h1000) % 16

\* (op & 0x0F00) >> 8
Digit2(op) == (op \div \h100) % 16

\* (op & 0x00F0) >> 4
Digit3(op) == (op \div \h10) % 16

\* op & 0x000F
Digit4(op) == op % 16

\* (op & 0x00FF) as u8
OpNN(op) == op % \h100

\* op & 0x0FFF
OpNNN(op) == op % \h1000

(***************************************************************************)
(* What an arm of execute leaves alone.  npc is pc as fetch left it.       *)
(***************************************************************************)
\* an arm that only moves pc
SetPc(target) ==
  /\ pc' = target
  /\ UNCHANGED <<ram, screen, v_reg, i_reg, sp, stack, keys, dt, st, fault>>

\* an arm that only writes registers
SetRegs(regs, npc) ==
  /\ v_reg' = regs
  /\ pc' = npc
  /\ UNCHANGED <<ram, screen, i_reg, sp, stack, keys, dt, st, fault>>

\* an arm that only writes I
SetI(val, npc) ==
  /\ i_reg' = val
  /\ pc' = npc
  /\ UNCHANGED <<ram, screen, v_reg, sp, stack, keys, dt, st, fault>>

\* a panic inside execute, before the arm wrote anything
Panic(kind, npc) ==
  /\ fault' = kind
  /\ pc' = npc
  /\ UNCHANGED <<ram, screen, v_reg, i_reg, sp, stack, keys, dt, st>>

(***************************************************************************)
(* Chip8::push and Chip8::pop (backend.rs 463-472).                        *)
(***************************************************************************)
\* push: stack[sp] = val (bounds checked), then sp += 1
\* (mutant: the bounds check lets index STACK_SIZE through)
PushFaultsLate == sp > STACK_SIZE

PushFaults == sp >= STACK_SIZE

PushStack(val) == [stack EXCEPT ![sp] = val]

PushSp == sp + 1

\* pop: sp -= 1, then stack[sp] (bounds checked)
PopSp == sp - 1

\* (mutant: pop reads the slot at the old stack pointer)
PopValueAbove == stack[sp % STACK_SIZE]

PopValue == stack[PopSp]

(***************************************************************************)
(* The arms of execute (backend.rs 161-454), in source order.              *)
(***************************************************************************)
\* (0, 0, 0, 0) => return
Op0000(op, npc) == SetPc(npc)

\* (mutant: the clear arm does nothing but move on)
Op00E0Skips(op, npc) == Op0000(op, npc)

\* (0, 0, 0xE, 0): clear the screen
Op00E0(op, npc) ==
  /\ screen' = [p \in 0..(SCREEN_SIZE - 1) |-> FALSE]
  /\ pc' = npc
  /\ UNCHANGED <<ram, v_reg, i_reg, sp, stack, keys, dt, st, fault>>

\* (0, 0, 0xE, 0xE): return from subroutine.  With sp = 0 the decrement
\* panics in a build with overflow checks; without them sp wraps to 65535
\* and the stack index panics.
Op00EE(op, npc) ==
  IF sp = 0
    THEN /\ pc' = npc
         /\ \/ fault' = "overflow" /\ sp' = sp
            \/ fault' = "bounds" /\ sp' = U16 - 1
         /\ UNCHANGED <<ram, screen, v_reg, i_reg, stack, keys, dt, st>>
    ELSE /\ sp' = PopSp
         /\ pc' = PopValue
         /\ UNCHANGED <<ram, screen, v_reg, i_reg, stack, keys, dt, st, fault>>

\* (1, _, _, _): jump
Op1NNN(op, npc) == SetPc(OpNNN(op))

\* (2, _, _, _): call
Op2NNN(op, npc) ==
  IF PushFaults
    THEN Panic("bounds", npc)
    ELSE /\ stack' = PushStack(npc)
         /\ sp' = PushSp
         /\ pc' = OpNNN(op)
         /\ UNCHANGED <<ram, screen, v_reg, i_reg, keys, dt, st, fault>>

\* (3, _, _, _): skip if vx == nn
Op3XNN(op, npc) ==
  SetPc(IF v_reg[Digit2(op)] = OpNN(op) THEN npc + 2 ELSE npc)

\* (mutant: skips when vx == nn)
Op4XNNEqual(op, npc) ==
  SetPc(IF v_reg[Digit2(op)] = OpNN(op) THEN npc + 2 ELSE npc)

\* (4, _, _, _): skip if vx != nn
Op4XNN(op, npc) ==
  SetPc(IF v_reg[Digit2(op)] # OpNN(op) THEN npc + 2 ELSE npc)

\* (5, _, _, 0): skip if vx == vy
Op5XY0(op, npc) ==
  SetPc(IF v_reg[Digit2(op)] = v_reg[Digit3(op)] THEN npc + 2 ELSE npc)

\* (6, _, _, _): vx = nn
Op6XNN(op, npc) ==
  SetRegs([v_reg EXCEPT ![Digit2(op)] = OpNN(op)], npc)

\* (7, _, _, _): vx = vx.wrapping_add(nn)
Op7XNN(op, npc) ==
  SetRegs([v_reg EXCEPT ![Digit2(op)] = (v_reg[Digit2(op)] + OpNN(op)) % U8],
          npc)

\* (8, _, _, 0): vx = vy
Op8XY0(op, npc) ==
  SetRegs([v_reg EXCEPT ![Digit2(op)] = v_reg[Digit3(op)]], npc)

\* (8, _, _, 1): vx |= vy
Op8XY1(op, npc) ==
  SetRegs([v_reg EXCEPT ![Digit2(op)] =
             BitOr(v_reg[Digit2(op)], v_reg[Digit3(op)])], npc)

\* (8, _, _, 2): vx &= vy
Op8XY2(op, npc) ==
  SetRegs([v_reg EXCEPT ![Digit2(op)] =
             BitAnd(v_reg[Digit2(op)], v_reg[Digit3(op)])], npc)

\* (8, _, _, 3): vx ^= vy
Op8XY3(op, npc) ==
  SetRegs([v_reg EXCEPT ![Digit2(op)] =
             BitXor(v_reg[Digit2(op)], v_reg[Digit3(op)])], npc)

\* (mutant: the flag is written before the destination)
Op8XY4FlagFirst(op, npc) ==
  LET vx == v_reg[Digit2(op)]
      vy == v_reg[Digit3(op)]
      new_vx == (vx + vy) % U8
      new_vf == IF vx + vy >= U8 THEN 1 ELSE 0
  IN SetRegs([[v_reg EXCEPT ![15] = new_vf] EXCEPT ![Digit2(op)] = new_vx],
             npc)

\* (8, _, _, 4): overflowing_add; v_reg[x] is written, then v_reg[0xF]
Op8XY4(op, npc) ==
  LET vx == v_reg[Digit2(op)]
      vy == v_reg[Digit3(op)]
      new_vx == (vx + vy) % U8
      new_vf == IF vx + vy >= U8 THEN 1 ELSE 0
  IN SetRegs([[v_reg EXCEPT ![Digit2(op)] = new_vx] EXCEPT ![15] = new_vf],
             npc)

\* (mutant: VF is the borrow, not its negation)
Op8XY5Borrow(op, npc) ==
  LET vx == v_reg[Digit2(op)]
      vy == v_reg[Digit3(op)]
      new_vx == (vx - vy) % U8
      new_vf == IF vx < vy THEN 1 ELSE 0
  IN SetRegs([[v_reg EXCEPT ![Digit2(op)] = new_vx] EXCEPT ![15] = new_vf],
             npc)

\* (8, _, _, 5): vx.overflowing_sub(vy)
Op8XY5(op, npc) ==
  LET vx == v_reg[Digit2(op)]
      vy == v_reg[Digit3(op)]
      new_vx == (vx - vy) % U8
      new_vf == IF vx < vy THEN 0 ELSE 1
  IN SetRegs([[v_reg EXCEPT ![Digit2(op)] = new_vx] EXCEPT ![15] = new_vf],
             npc)

\* (8, _, _, 6): shift right by one
Op8XY6(op, npc) ==
  LET vx == v_reg[Digit2(op)]
      lsb == BitAnd(vx, 1)
  IN SetRegs([[v_reg EXCEPT ![Digit2(op)] = vx \div 2] EXCEPT ![15] = lsb],
             npc)

\* (8, _, _, 7): vy.overflowing_sub(vx)
Op8XY7(op, npc) ==
  LET vx == v_reg[Digit2(op)]
      vy == v_reg[Digit3(op)]
      new_vx == (vy - vx) % U8
      new_vf == IF vy < vx THEN 0 ELSE 1
  IN SetRegs([[v_reg EXCEPT ![Digit2(op)] = new_vx] EXCEPT ![15] = new_vf],
             npc)

\* (8, _, _, 0xE): shift left by one
Op8XYE(op, npc) ==
  LET vx == v_reg[Digit2(op)]
      msb == BitAnd(vx \div 128, 1)
  IN SetRegs([[v_reg EXCEPT ![Digit2(op)] = (vx * 2) % U8] EXCEPT ![15] = msb],
             npc)

\* (mutant: skips when vx == vy)
Op9XY0Equal(op, npc) ==
  SetPc(IF v_reg[Digit2(op)] = v_reg[Digit3(op)] THEN npc + 2 ELSE npc)

\* (9, _, _, 0): skip if vx != vy
Op9XY0(op, npc) ==
  SetPc(IF v_reg[Digit2(op)] # v_reg[Digit3(op)] THEN npc + 2 ELSE npc)

\* (0xA, _, _, _): I = nnn
OpANNN(op, npc) == SetI(OpNNN(op), npc)

\* (mutant: v0 counts words, not bytes)
OpBNNNWords(op, npc) == SetPc(2 * v_reg[0] + OpNNN(op))

\* (0xB, _, _, _): jump to v0 + nnn
OpBNNN(op, npc) == SetPc(v_reg[0] + OpNNN(op))

\* (0xC, _, _, _): vx = random() & nn
OpCXNN(op, npc) ==
  \E masked \in {BitAnd(rng, OpNN(op)) : rng \in 0..(U8 - 1)} :
    SetRegs([v_reg EXCEPT ![Digit2(op)] = masked], npc)

(***************************************************************************)
(* (0xD, _, _, _): draw (backend.rs 331-370).  The two nested loops visit  *)
(* the sprite bits in row-major order; bit number k is column k % 8 of row *)
(* k \div 8.  A row whose address is outside the RAM panics when it is     *)
(* read; the rows before it have been drawn by then.                       *)
(***************************************************************************)
\* (mutant: only the index is wrapped, so a column past the right edge
\* lands on the next row)
PixelIdxFlat(x_coord, y_coord, x_line, y_line) ==
  ((x_coord + x_line) + SCREEN_WIDTH * (y_coord + y_line)) % SCREEN_SIZE

\* x + SCREEN_WIDTH * y for the wrapped coordinates (backend.rs 352-356)
PixelIdx(x_coord, y_coord, x_line, y_line) ==
  LET x == (x_coord + x_line) % SCREEN_WIDTH
      y == (y_coord + y_line) % SCREEN_HEIGHT
  IN x + SCREEN_WIDTH * y

\* (pixels & (0b1000_0000 >> x_line)) != 0
SpriteBit(pixels, x_line) == (pixels \div (128 \div (2^x_line))) % 2 # 0

\* the number of rows whose address i_reg + y_line is inside the RAM
RowsInRam(num_rows) ==
  IF i_reg + num_rows <= RAM_SIZE THEN num_rows
  ELSE IF i_reg >= RAM_SIZE THEN 0 ELSE RAM_SIZE - i_reg

\* (mutant: flipped = screen[idx], the flag of the last set bit only)
CollidesLast(flipped, lit) == lit

\* flipped |= self.screen[idx]
Collides(flipped, lit) == flipped \/ lit

\* The loop body from bit k to bit last-1.  scr is the screen and flipped
\* the loop's flag, as the bits before k left them.
RECURSIVE DrawLoop(_, _, _, _, _, _)
DrawLoop(k, last, x_coord, y_coord, scr, flipped) ==
  IF k >= last THEN [screen |-> scr, flipped |-> flipped]
  ELSE LET y_line == k \div 8
           x_line == k % 8
           pixels == ram[i_reg + y_line]
           idx == PixelIdx(x_coord, y_coord, x_line, y_line)
       IN IF SpriteBit(pixels, x_line)
            THEN DrawLoop(k + 1, last, x_coord, y_coord,
                          [scr EXCEPT ![idx] = ~scr[idx]],
                          Collides(flipped, scr[idx]))
            ELSE DrawLoop(k + 1, last, x_coord, y_coord, scr, flipped)

OpDXYN(op, npc) ==
  LET x_coord == v_reg[Digit2(op)]
      y_coord == v_reg[Digit3(op)]
      num_rows == Digit4(op)
      done == RowsInRam(num_rows)
      res == DrawLoop(0, 8 * done, x_coord, y_coord, screen, FALSE)
  IN /\ screen' = res.screen
     /\ pc' = npc
     /\ IF done < num_rows
          THEN /\ fault' = "bounds"
               /\ UNCHANGED v_reg
          ELSE /\ v_reg' = [v_reg EXCEPT ![15] = IF res.flipped THEN 1 ELSE 0]
               /\ UNCHANGED fault
     /\ UNCHANGED <<ram, i_reg, sp, stack, keys, dt, st>>

\* (0xE, _, 9, 0xE): skip if key vx is pressed; keys[vx] is bounds checked
OpEX9E(op, npc) ==
  LET vx == v_reg[Digit2(op)]
  IN IF vx >= NUM_KEYS THEN Panic("bounds", npc)
     ELSE SetPc(IF keys[vx] THEN npc + 2 ELSE npc)

\* (0xE, _, 0xA, 1): skip if key vx is not pressed
OpEXA1(op, npc) ==
  LET vx == v_reg[Digit2(op)]
  IN IF vx >= NUM_KEYS THEN Panic("bounds", npc)
     ELSE SetPc(IF ~keys[vx] THEN npc + 2 ELSE npc)

\* (0xF, _, 0, 7): vx = dt
OpFX07(op, npc) == SetRegs([v_reg EXCEPT ![Digit2(op)] = dt], npc)

\* (mutant: the loop does not stop, the last pressed key wins)
LastPressed == CHOOSE i \in 0..(NUM_KEYS - 1) :
                 keys[i] /\ \A j \in (i + 1)..(NUM_KEYS - 1) : ~keys[j]

\* (0xF, _, 0, 0xA): wait for a key.  The loop stops at the first pressed
\* key; with none pressed pc is taken back by 2.
FirstPressed == CHOOSE i \in 0..(NUM_KEYS - 1) :
                  keys[i] /\ \A j \in 0..(i - 1) : ~keys[j]

\* (mutant: no rewind, the wait is skipped when no key is pressed)
OpFX0ANoWait(op, npc) ==
  IF \E i \in 0..(NUM_KEYS - 1) : keys[i]
    THEN SetRegs([v_reg EXCEPT ![Digit2(op)] = FirstPressed], npc)
    ELSE SetPc(npc)

OpFX0A(op, npc) ==
  IF \E i \in 0..(NUM_KEYS - 1) : keys[i]
    THEN SetRegs([v_reg EXCEPT ![Digit2(op)] = FirstPressed], npc)
    ELSE SetPc(npc - 2)

\* (0xF, _, 1, 5): dt = vx
OpFX15(op, npc) ==
  /\ dt' = v_reg[Digit2(op)]
  /\ pc' = npc
  /\ UNCHANGED <<ram, screen, v_reg, i_reg, sp, stack, keys, st, fault>>

\* (0xF, _, 1, 8): st = vx
OpFX18(op, npc) ==
  /\ st' = v_reg[Digit2(op)]
  /\ pc' = npc
  /\ UNCHANGED <<ram, screen, v_reg, i_reg, sp, stack, keys, dt, fault>>

\* (0xF, _, 1, 0xE): I = I.wrapping_add(vx)
OpFX1E(op, npc) == SetI((i_reg + v_reg[Digit2(op)]) % U16, npc)

\* (0xF, _, 2, 9): I = vx * 5
OpFX29(op, npc) == SetI(v_reg[Digit2(op)] * 5, npc)

\* f32 -> u8 with `as`: saturating
AsU8(f) == IF f > U8 - 1 THEN U8 - 1 ELSE IF f < 0 THEN 0 ELSE f

\* (0xF, _, 3, 3): the three digits as the f32 expressions compute them
\* (backend.rs 432-434); every value involved is an integer below 2^24, so
\* the f32 arithmetic is exact.
BcdHundreds(vx) == AsU8(vx * 100)

BcdTens(vx) == AsU8((vx * 10) % 10)

BcdOnes(vx) == AsU8(vx % 10)

\* ram[i_reg], ram[i_reg + 1], ram[i_reg + 2] are written in this order, each
\* bounds checked
OpFX33(op, npc) ==
  LET vx == v_reg[Digit2(op)]
      digits == <<BcdHundreds(vx), BcdTens(vx), BcdOnes(vx)>>
  IN /\ ram' = WriteCells(ram, i_reg, digits)
     /\ pc' = npc
     /\ fault' = IF i_reg + 2 >= RAM_SIZE THEN "bounds" ELSE fault
     /\ UNCHANGED <<screen, v_reg, i_reg, sp, stack, keys, dt, st>>

\* (0xF, _, 5, 5): ram[i + idx] = v_reg[idx] for idx in 0..=x, each bounds
\* checked
OpFX55(op, npc) ==
  LET x == Digit2(op)
  IN /\ ram' = WriteCells(ram, i_reg, [idx \in 1..(x + 1) |-> v_reg[idx - 1]])
     /\ pc' = npc
     /\ fault' = IF i_reg + x >= RAM_SIZE THEN "bounds" ELSE fault
     /\ UNCHANGED <<screen, v_reg, i_reg, sp, stack, keys, dt, st>>

\* (mutant: the loop stops before x)
OpFX65Exclusive(op, npc) ==
  LET x == Digit2(op)
  IN /\ v_reg' = [r \in 0..(NUM_REGS - 1) |->
                    IF r < x /\ i_reg + r < RAM_SIZE
                      THEN ram[i_reg + r] ELSE v_reg[r]]
     /\ pc' = npc
     /\ fault' = IF i_reg + x > RAM_SIZE THEN "bounds" ELSE fault
     /\ UNCHANGED <<ram, screen, i_reg, sp, stack, keys, dt, st>>

\* (0xF, _, 6, 5): v_reg[idx] = ram[i + idx] for idx in 0..=x
OpFX65(op, npc) ==
  LET x == Digit2(op)
  IN /\ v_reg' = [r \in 0..(NUM_REGS - 1) |->
                    IF r <= x /\ i_reg + r < RAM_SIZE
                      THEN ram[i_reg + r] ELSE v_reg[r]]
     /\ pc' = npc
     /\ fault' = IF i_reg + x >= RAM_SIZE THEN "bounds" ELSE fault
     /\ UNCHANGED <<ram, screen, i_reg, sp, stack, keys, dt, st>>

\* (mutant: an unknown word is skipped)
OpIgnored(op, npc) == SetPc(npc)

\* (_, _, _, _) => unimplemented!()
OpUnimplemented(op, npc) == Panic("unimplemented", npc)

(***************************************************************************)
(* Chip8::execute (backend.rs 155-456): the match, first arm first.        *)
(***************************************************************************)
Execute(op, npc) ==
  LET d1 == Digit1(op)
      d2 == Digit2(op)
      d3 == Digit3(op)
      d4 == Digit4(op)
  IN CASE d1 = 0 /\ d2 = 0 /\ d3 = 0 /\ d4 = 0 -> Op0000(op, npc)
       [] d1 = 0 /\ d2 = 0 /\ d3 = 14 /\ d4 = 0 -> Op00E0(op, npc)
       [] d1 = 0 /\ d2 = 0 /\ d3 = 14 /\ d4 = 14 -> Op00EE(op, npc)
       [] d1 = 1 -> Op1NNN(op, npc)
       [] d1 = 2 -> Op2NNN(op, npc)
       [] d1 = 3 -> Op3XNN(op, npc)
       [] d1 = 4 -> Op4XNN(op, npc)
       [] d1 = 5 /\ d4 = 0 -> Op5XY0(op, npc)
       [] d1 = 6 -> Op6XNN(op, npc)
       [] d1 = 7 -> Op7XNN(op, npc)
       [] d1 = 8 /\ d4 = 0 -> Op8XY0(op, npc)
       [] d1 = 8 /\ d4 = 1 -> Op8XY1(op, npc)
       [] d1 = 8 /\ d4 = 2 -> Op8XY2(op, npc)
       [] d1 = 8 /\ d4 = 3 -> Op8XY3(op, npc)
       [] d1 = 8 /\ d4 = 4 -> Op8XY4(op, npc)
       [] d1 = 8 /\ d4 = 5 -> Op8XY5(op, npc)
       [] d1 = 8 /\ d4 = 6 -> Op8XY6(op, npc)
       [] d1 = 8 /\ d4 = 7 -> Op8XY7(op, npc)
       [] d1 = 8 /\ d4 = 14 -> Op8XYE(op, npc)
       [] d1 = 9 /\ d4 = 0 -> Op9XY0(op, npc)
       [] d1 = 10 -> OpANNN(op, npc)
       [] d1 = 11 -> OpBNNN(op, npc)
       [] d1 = 12 -> OpCXNN(op, npc)
       [] d1 = 13 -> OpDXYN(op, npc)
       [] d1 = 14 /\ d3 = 9 /\ d4 = 14 -> OpEX9E(op, npc)
       [] d1 = 14 /\ d3 = 10 /\ d4 = 1 -> OpEXA1(op, npc)
       [] d1 = 15 /\ d3 = 0 /\ d4 = 7 -> OpFX07(op, npc)
       [] d1 = 15 /\ d3 = 0 /\ d4 = 10 -> OpFX0A(op, npc)
       [] d1 = 15 /\ d3 = 1 /\ d4 = 5 -> OpFX15(op, npc)
       [] d1 = 15 /\ d3 = 1 /\ d4 = 8 -> OpFX18(op, npc)
       [] d1 = 15 /\ d3 = 1 /\ d4 = 14 -> OpFX1E(op, npc)
       [] d1 = 15 /\ d3 = 2 /\ d4 = 9 -> OpFX29(op, npc)
       [] d1 = 15 /\ d3 = 3 /\ d4 = 3 -> OpFX33(op, npc)
       [] d1 = 15 /\ d3 = 5 /\ d4 = 5 -> OpFX55(op, npc)
       [] d1 = 15 /\ d3 = 6 /\ d4 = 5 -> OpFX65(op, npc)
       [] OTHER -> OpUnimplemented(op, npc)

(***************************************************************************)
(* What a tick adds to the history variables (no code: bookkeeping).       *)
(***************************************************************************)
\* the sprite bytes a draw reads
SpriteBytes(num_rows) == [r \in 1..num_rows |-> ram[i_reg + r - 1]]

\* the pixels that are lit
Lit(scr) == {p \in 0..(SCREEN_SIZE - 1) : scr[p]}

DrawRecord(op) ==
  [x_coord |-> v_reg[Digit2(op)], y_coord |-> v_reg[Digit3(op)],
   i |-> i_reg, sprite |-> SpriteBytes(Digit4(op)), before |-> Lit(screen)]

TickHistory(op) ==
  /\ lastOp' = op
  /\ lastAddr' = pc
  /\ nops' = IF op = 0 THEN nops + 1 ELSE 0
  /\ calls' = IF fault' # "none" THEN calls
              ELSE IF Digit1(op) = 2 THEN Append(calls, pc + 2)
              ELSE IF op = 238 THEN SubSeq(calls, 1, Len(calls) - 1)
              ELSE calls
  /\ IF fault' = "none" /\ Digit1(op) = 15 /\ OpNN(op) = 21
       THEN dtSet' = v_reg[Digit2(op)] /\ dtCalls' = 0
       ELSE UNCHANGED <<dtSet, dtCalls>>
  /\ IF fault' = "none" /\ Digit1(op) = 15 /\ OpNN(op) = 24
       THEN stSet' = v_reg[Digit2(op)] /\ stCalls' = 0
       ELSE UNCHANGED <<stSet, stCalls>>
  /\ draws' = IF fault' # "none" THEN draws
              ELSE IF op = 224 THEN << >>
              ELSE IF Digit1(op) = 13
                     THEN IF Len(draws) = 2
                            THEN <<draws[2], DrawRecord(op)>>
                            ELSE Append(draws, DrawRecord(op))
              ELSE draws
  /\ UNCHANGED <<loads, loaded>>

(***************************************************************************)
(* Chip8::tick (backend.rs 88-94): fetch, then execute.  fetch's two reads *)
(* are bounds checked and come before its pc += 2.                         *)
(***************************************************************************)
Tick ==
  /\ fault = "none"
  /\ IF FetchFaults
       THEN /\ fault' = "bounds"
            /\ UNCHANGED machine
            /\ UNCHANGED history
       ELSE /\ Fetch = 0 => nops < MaxNops
            /\ Execute(Fetch, pc + 2)
            /\ TickHistory(Fetch)

(***************************************************************************)
(* Programs the model loads, written as 16-bit words and stored big-endian *)
(* as a ROM file holds them.                                               *)
(***************************************************************************)
RECURSIVE Bytes(_)
Bytes(words) ==
  IF words = << >> THEN << >>
  ELSE <<Head(words) \div 256, Head(words) % 256>> \o Bytes(Tail(words))

\* Nested calls, one subroutine per stack level.  Level n occupies four
\* words at CallLevelAddr(n): it calls level n + 1 unless V0 is 0, then
\* returns.  At the levels in CallChoices V0 is a random bit, elsewhere 1.
\* The call at level STACK_SIZE is the 17th push.
CallLevelAddr(n) == START_ADDR + 8 + 8 * (n - 1)

CallChoices == {3, STACK_SIZE}

RECURSIVE CallLevels(_)
CallLevels(n) ==
  IF n > STACK_SIZE THEN << >>
  ELSE << IF n \in CallChoices THEN \hC001 ELSE \h6001,
          \h3000,
          \h2000 + CallLevelAddr(n + 1),
          \h00EE >> \o CallLevels(n + 1)

CallRom ==
  << \h2000 + CallLevelAddr(1),     \* 200: call level 1
     \h2206,                        \* 202: call 206
     \h1204,                        \* 204: jump to self
     \h00EE >>                      \* 206: return
  \o CallLevels(1)

\* Wait for a key into V1, again and again.
KeyRom ==
  << \hF10A,                        \* 200: V1 = key (blocks)
     \h1200 >>                      \* 202: jump 200

\* Set both timers, read the delay timer, start over.
TimerRom ==
  << \h6003,                        \* 200: V0 = 3
     \hF015,                        \* 202: dt = V0
     \h6102,                        \* 204: V1 = 2
     \hF118,                        \* 206: st = V1
     \hF207,                        \* 208: V2 = dt
     \h1200 >>                      \* 20A: jump 200

\* Draw a 3-row sprite at a random place near the right and bottom edges,
\* draw it again, a third time, then a 2-row part of it one pixel to the
\* right, then clear the screen.
DrawRom ==
  << \hC0C1,                        \* 200: V0 = rand & C1
     \h703E,                        \* 202: V0 += 62
     \hC181,                        \* 204: V1 = rand & 81
     \h711E,                        \* 206: V1 += 30
     \hA218,                        \* 208: I = 218
     \hD013,                        \* 20A: draw 3 rows at (V0, V1)
     \hD013,                        \* 20C: the same draw
     \hD013,                        \* 20E: and again
     \h7001,                        \* 210: V0 += 1
     \hD012,                        \* 212: draw 2 rows at (V0, V1)
     \h00E0,                        \* 214: clear
     \h1216,                        \* 216: jump to self
     \hFF81,                        \* 218: sprite rows FF, 81
     \h3D00 >>                      \* 21A: sprite row 3D

\* Every arm of execute once, after a draw has lit some pixels.
AllOpsRom ==
  << \h6007,                        \* 200: V0 = 7
     \hA000,                        \* 202: I = 0 (glyph 0)
     \hD005,                        \* 204: draw 5 rows at (V0, V0)
     \h0000,                        \* 206: no-op
     \h6105,                        \* 208: V1 = 5
     \h3105,                        \* 20A: skip: V1 == 5
     \hFFFF,                        \* 20C: (skipped)
     \h4105,                        \* 20E: no skip: V1 == 5
     \h5010,                        \* 210: no skip: V0 # V1
     \h9010,                        \* 212: skip: V0 # V1
     \hFFFF,                        \* 214: (skipped)
     \h7101,                        \* 216: V1 += 1
     \h8010,                        \* 218: V0 = V1
     \h8011,                        \* 21A: V0 |= V1
     \h8012,                        \* 21C: V0 &= V1
     \h8013,                        \* 21E: V0 ^= V1
     \h8014,                        \* 220: V0 += V1
     \h8015,                        \* 222: V0 -= V1
     \h8016,                        \* 224: V0 >>= 1
     \h8017,                        \* 226: V0 = V1 - V0
     \h801E,                        \* 228: V0 <<= 1
     \h6101,                        \* 22A: V1 = 1
     \hF115,                        \* 22C: dt = V1
     \hF118,                        \* 22E: st = V1
     \hF307,                        \* 230: V3 = dt
     \hF31E,                        \* 232: I += V3
     \hF029,                        \* 234: I = glyph V0
     \hA300,                        \* 236: I = 300
     \hF133,                        \* 238: BCD of V1 at I
     \hF155,                        \* 23A: store V0..V1 at I
     \hF165,                        \* 23C: load V0..V1 from I
     \h6000,                        \* 23E: V0 = 0
     \hE09E,                        \* 240: skip if key V0 pressed
     \h0000,                        \* 242: no-op
     \hE0A1,                        \* 244: skip if key V0 not pressed
     \h0000,                        \* 246: no-op
     \hF40A,                        \* 248: V4 = key (blocks)
     \h2250,                        \* 24A: call 250
     \hB254,                        \* 24C: jump V0 + 254
     \hFFFF,                        \* 24E: (not reached)
     \h00EE,                        \* 250: return
     \hFFFF,                        \* 252: (not reached)
     \h00E0,                        \* 254: clear
     \hC501,                        \* 256: V5 = rand & 1
     \h3500,                        \* 258: skip: V5 == 0
     \h5001,                        \* 25A: no such instruction
     \h125C >>                      \* 25C: jump to self

\* Jumps to the end of the memory and past it: to FFE with V0 = 0, to FFF
\* with V0 = 1, to 1001 with V0 = 2 and to 10FE with V0 = 255.
PcRom ==
  << \hC003,                        \* 200: V0 = rand & 03
     \h3003,                        \* 202: skip if V0 == 3
     \h1208,                        \* 204: jump 208
     \h60FF,                        \* 206: V0 = FF
     \h4000,                        \* 208: skip if V0 != 0
     \hBFFE,                        \* 20A: jump V0 + FFE
     \h3001,                        \* 20C: skip if V0 == 1
     \hBFFF,                        \* 20E: jump V0 + FFF
     \hBFFE >>                      \* 210: jump V0 + FFE

Roms == { Bytes(CallRom), Bytes(KeyRom), Bytes(TimerRom), Bytes(DrawRom),
          Bytes(AllOpsRom), Bytes(PcRom) }

\* What a later load writes over the running program: a jump-to-self at the
\* start address.
Patches == { Bytes(<< \h1200 >>) }

(***************************************************************************)
(* Any sequence of calls of the public methods: load of a program, then    *)
(* tick, tick_timers, keypress and further loads in any order.             *)
(***************************************************************************)
DoLoad ==
  /\ loads = 0
  /\ \E data \in Roms : Load(data)
  /\ UNCHANGED host

DoReload ==
  /\ loads > 0
  /\ loads < MaxLoads
  /\ \E data \in Patches : Load(data)
  /\ UNCHANGED host

DoTick == Tick /\ UNCHANGED host

DoTickTimers == TickTimers /\ UNCHANGED host

DoKeypress ==
  /\ \E idx \in 0..(MaxKeys - 1), pressed \in BOOLEAN : Keypress(idx, pressed)
  /\ UNCHANGED host

Next == DoLoad \/ DoReload \/ DoTick \/ DoTickTimers \/ DoKeypress

Spec == Init /\ [][Next]_vars

(***************************************************************************)
(* The program: main (main.rs 28-34) makes the machine, loads the ROM and  *)
(* calls run_game (frontend.rs 28-70), whose loop handles the pending      *)
(* events, calls tick TICKS_PER_FRAME times, then tick_timers, then draws  *)
(* the screen.  hpc is the place in this code, tick_i the count of the     *)
(* for loop.  A panic of the machine ends the program.                     *)
(***************************************************************************)
HostRoms == { Bytes(KeyRom), Bytes(TimerRom), Bytes(AllOpsRom) }

\* chip8.load(&data); run_game(chip8)
HostLoad ==
  /\ hpc = "new"
  /\ \E data \in HostRoms : Load(data)
  /\ hpc' = "poll"
  /\ UNCHANGED tick_i

\* The keys of the claims: the sixteen that key2btn maps and some others.
MappedKeycodes ==
  { "Num1", "Num2", "Num3", "Num4", "Q", "W", "E", "R",
    "A", "S", "D", "F", "Z", "X", "C", "V" }

Keycodes == MappedKeycodes \cup { "K", "P", "Num5", "Space", "Return" }

\* (mutant: Num4 gives 4, as Q does)
key2btnRow(key) ==
  CASE key = "Num1" -> <<1>>  [] key = "Num2" -> <<2>>
    [] key = "Num3" -> <<3>>  [] key = "Num4" -> <<4>>
    [] key = "Q" -> <<4>>     [] key = "W" -> <<5>>
    [] key = "E" -> <<6>>     [] key = "R" -> <<13>>
    [] key = "A" -> <<7>>     [] key = "S" -> <<8>>
    [] key = "D" -> <<9>>     [] key = "F" -> <<14>>
    [] key = "Z" -> <<10>>    [] key = "X" -> <<0>>
    [] key = "C" -> <<11>>    [] key = "V" -> <<15>>
    [] OTHER -> << >>

\* key2btn (frontend.rs 110-130): Some(btn) is <<btn>>, None is << >>
key2btn(key) ==
  CASE key = "Num1" -> <<1>>  [] key = "Num2" -> <<2>>
    [] key = "Num3" -> <<3>>  [] key = "Num4" -> <<12>>
    [] key = "Q" -> <<4>>     [] key = "W" -> <<5>>
    [] key = "E" -> <<6>>     [] key = "R" -> <<13>>
    [] key = "A" -> <<7>>     [] key = "S" -> <<8>>
    [] key = "D" -> <<9>>     [] key = "F" -> <<14>>
    [] key = "Z" -> <<10>>    [] key = "X" -> <<0>>
    [] key = "C" -> <<11>>    [] key = "V" -> <<15>>
    [] OTHER -> << >>

\* the number of keys held down
KeysDown == Cardinality({i \in 0..(NUM_KEYS - 1) : keys[i]})

\* Event::KeyDown / Event::KeyUp of one of the given keys:
\* if let Some(btn) = key2btn(key) { keypress(btn, true / false) }.
\* The keyboard holds at most MaxKeys keys down at once.
HostKeyEventOn(codes) ==
  /\ hpc = "poll"
  /\ \E key \in codes, pressed \in BOOLEAN :
       LET btn == key2btn(key)
       IN IF btn = << >>
            THEN UNCHANGED <<machine, fault, history>>
            ELSE /\ pressed => KeysDown < MaxKeys
                 /\ Keypress(btn[1], pressed)
  /\ UNCHANGED host

\* the keys of the first MaxKeys buttons, and the keys of no button
HostKeycodes ==
  {key \in Keycodes : key2btn(key) = << >> \/ key2btn(key)[1] < MaxKeys}

HostKeyEvent == HostKeyEventOn(HostKeycodes)

\* Event::Quit or the Escape key: break 'gameloop
HostQuit ==
  /\ hpc = "poll"
  /\ fault = "none"
  /\ hpc' = "quit"
  /\ UNCHANGED <<tick_i, machine, fault, history>>

\* poll_iter has no more events: on to the for loop
HostPollEnd ==
  /\ hpc = "poll"
  /\ fault = "none"
  /\ hpc' = "tick"
  /\ tick_i' = 0
  /\ UNCHANGED <<machine, fault, history>>

\* (mutant: the range is inclusive, for _ in 0..=TICKS_PER_FRAME)
HostTickInclusive ==
  /\ hpc = "tick"
  /\ tick_i <= TICKS_PER_FRAME
  /\ Tick
  /\ tick_i' = tick_i + 1
  /\ hpc' = IF tick_i + 1 <= TICKS_PER_FRAME THEN "tick" ELSE "timers"

\* for _ in 0..TICKS_PER_FRAME { chip8.tick(); }
HostTick ==
  /\ hpc = "tick"
  /\ tick_i < TICKS_PER_FRAME
  /\ Tick
  /\ tick_i' = tick_i + 1
  /\ hpc' = IF tick_i + 1 < TICKS_PER_FRAME THEN "tick" ELSE "timers"

\* chip8.tick_timers()
HostTickTimers ==
  /\ hpc = "timers"
  /\ TickTimers
  /\ hpc' = "draw"
  /\ UNCHANGED tick_i

\* draw_screen(&chip8, &mut canvas): reads the screen
HostDraw ==
  /\ hpc = "draw"
  /\ fault = "none"
  /\ hpc' = "poll"
  /\ UNCHANGED <<tick_i, machine, fault, history>>

HostNext ==
  \/ HostLoad
  \/ HostKeyEvent
  \/ HostQuit
  \/ HostPollEnd
  \/ HostTick
  \/ HostTickTimers
  \/ HostDraw

\* The event loop alone, with every key: events keep coming until one quits.
HostKeyboard == HostKeyEventOn(Keycodes)

KeyNext == HostLoad \/ HostKeyboard \/ HostQuit

KeySpec == Init /\ [][KeyNext]_vars

\* The loop is sequential code: the event loop ends when the pending events
\* are handled, and each statement after it runs.
HostSpec ==
  /\ Init
  /\ [][HostNext]_vars
  /\ WF_vars(HostPollEnd)
  /\ WF_vars(HostTick)
  /\ WF_vars(HostTickTimers)
  /\ WF_vars(HostDraw)

(***************************************************************************)
(* Single instructions on a new machine: a program of one instruction word *)
(* followed by a jump-to-self is loaded and run.  The words are those of   *)
(* the families whose patterns fix digits after the first: every word of   *)
(* family 0, and of the families 5, 8, 9, E and F every word whose second  *)
(* digit (always the register X) is in ProbeRegs; and two words of each    *)
(* other family.  One more program stores                                  *)
(* the decimal digits of a random byte, and two draw a sprite at random    *)
(* coordinates.                                                            *)
(***************************************************************************)
ProbeFamilies == {5, 8, 9, 14, 15}

ProbeRegs == {0, 1, 15}

ProbeWords ==
  {w \in 0..(U16 - 1) :
     \/ Digit1(w) = 0
     \/ Digit1(w) \in ProbeFamilies /\ Digit2(w) \in ProbeRegs
     \/ OpNNN(w) \in {\h000, \h2A5}}

BcdRom ==
  << \hC0FF,                        \* 200: V0 = rand
     \hA300,                        \* 202: I = 300
     \hF033,                        \* 204: BCD of V0 at I
     \h1206 >>                      \* 206: jump to self

\* Draw a 3-row sprite, move one pixel on, draw it again.  set_x and set_y
\* put the coordinates in V0 and V1, step moves one of them.
DrawProbe(set_x, set_y, step) ==
  << set_x,                         \* 200: V0 = ...
     set_y,                         \* 202: V1 = ...
     \hA20E,                        \* 204: I = 20E
     \hD013,                        \* 206: draw 3 rows at (V0, V1)
     step,                          \* 208: V0 += 1 or V1 += 1
     \hD013,                        \* 20A: draw again
     \h120C,                        \* 20C: jump to self
     \hFF81,                        \* 20E: sprite rows FF, 81
     \h3D00 >>                      \* 210: sprite row 3D

\* every Vx on the bottom line, and every Vy at the right edge
DrawProbes ==
  { Bytes(DrawProbe(\hC0FF, \h611F, \h7001)),
    Bytes(DrawProbe(\h603F, \hC1FF, \h7101)) }

Probes ==
  {Bytes(<< w, \h1202 >>) : w \in ProbeWords} \cup {Bytes(BcdRom)}
    \cup DrawProbes

DoProbe ==
  /\ loads = 0
  /\ \E data \in Probes : Load(data)
  /\ UNCHANGED host

OpNext == DoProbe \/ DoTick

OpSpec == Init /\ [][OpNext]_vars

(***************************************************************************)
(* Loads of any size at any time: a program is loaded, and while it runs   *)
(* load is called again: with a short program, with one that fills the RAM *)
(* to its last cell, and with one that is a byte too long.                 *)
(***************************************************************************)
\* n bytes: a jump-to-self, then a pattern that has no zero byte
Filler(n) == [k \in 1..n |-> IF k = 1 THEN 18 ELSE IF k = 2 THEN 0
                                      ELSE 1 + (k % 251)]

LoadData ==
  { Bytes(TimerRom),
    Filler(RAM_SIZE - START_ADDR), Filler(RAM_SIZE - START_ADDR + 1) }

DoAnyLoad ==
  /\ loads < MaxLoads
  /\ \E data \in LoadData : Load(data)
  /\ UNCHANGED host

\* keypress(0, pressed)
DoKeypressZero ==
  /\ \E pressed \in BOOLEAN : Keypress(0, pressed)
  /\ UNCHANGED host

LoadNext == DoAnyLoad \/ DoTick \/ DoKeypressZero

LoadSpec == Init /\ [][LoadNext]_vars

(***************************************************************************)
(* Register arithmetic on random operands.  A program draws Vx from every  *)
(* byte and Vy from the bytes of a mask (or the other way round), then     *)
(* runs the opcodes that keep Vx ranging over every byte for each Vy (add, *)
(* subtract, reverse subtract, xor, add constant), and one more at the     *)
(* end.  The shifts get a program of their own.  The mask 81 gives the    *)
(* bytes 0, 1, 128 and 129.                                                *)
(***************************************************************************)
\* the word of family d1 with digits x, y and d4
Word4(d1, x, y, d4) == d1 * \h1000 + x * \h100 + y * \h10 + d4

AluRom(x, y, mask_x, mask_y, last) ==
  << IF mask_x < mask_y             \* 200, 202: Vx = rand & mask_x and
       THEN Word4(12, x, 0, 0) + mask_x  \* Vy = rand & mask_y, the one
       ELSE Word4(12, y, 0, 0) + mask_y, \* with the smaller mask first
     IF mask_x < mask_y
       THEN Word4(12, y, 0, 0) + mask_y
       ELSE Word4(12, x, 0, 0) + mask_x,
     Word4(8, x, y, 4),             \* 204: Vx += Vy
     Word4(8, x, y, 5),             \* 206: Vx -= Vy
     Word4(8, x, y, 7),             \* 208: Vx = Vy - Vx
     Word4(8, x, y, 3),             \* 20A: Vx ^= Vy
     Word4(7, x, 15, 15),           \* 20C: Vx += FF
     Word4(8, x, y, last),          \* 20E: one of the other opcodes
     \h1210 >>                      \* 210: jump to self

ShiftRom(x, d4) ==
  << Word4(12, x, 15, 15),          \* 200: Vx = rand
     Word4(8, x, 0, d4),            \* 202: shift Vx
     \h1204 >>                      \* 204: jump to self

SkipRom ==
  << \hC103,                        \* 200: V1 = rand & 03
     \hC0FF,                        \* 202: V0 = rand
     \h3002,                        \* 204: skip if V0 == 02
     \h6200,                        \* 206: V2 = 0
     \h4080,                        \* 208: skip if V0 != 80
     \h6200,                        \* 20A: V2 = 0
     \h5010,                        \* 20C: skip if V0 == V1
     \h6200,                        \* 20E: V2 = 0
     \h9100,                        \* 210: skip if V1 != V0
     \h6200,                        \* 212: V2 = 0
     \h1214 >>                      \* 214: jump to self

KeySkipRom ==
  << \hC0FF,                        \* 200: V0 = rand
     \hE09E,                        \* 202: skip if key V0 is pressed
     \h6200,                        \* 204: V2 = 0
     \hE0A1,                        \* 206: skip if key V0 is not pressed
     \h6200,                        \* 208: V2 = 0
     \h120A >>                      \* 20A: jump to self

DumpRom ==
  << \hC181,                        \* 200: V1 = rand & 81
     \hC0FF,                        \* 202: V0 = rand
     \hA300,                        \* 204: I = 300
     \hF155,                        \* 206: dump V0..V1
     \hF165,                        \* 208: load V0..V1
     \h6000,                        \* 20A: V0 = 0
     \h6107,                        \* 20C: V1 = 7
     \hF165,                        \* 20E: load V0..V1
     \h1210 >>                      \* 210: jump to self

\* the opcode with VF as its destination
FlagRom(d4) ==
  << \hCFC3,                        \* 200: VF = rand & C3
     \hC1C3,                        \* 202: V1 = rand & C3
     Word4(8, 15, 1, d4),           \* 204: VF = VF op V1
     \h1206 >>                      \* 206: jump to self

AluRoms ==
  { Bytes(SkipRom), Bytes(KeySkipRom), Bytes(DumpRom),
    Bytes(FlagRom(4)), Bytes(FlagRom(5)), Bytes(FlagRom(6)),
    Bytes(FlagRom(7)), Bytes(FlagRom(14)),
    Bytes(AluRom(0, 1, \hFF, \h81, 1)),
    Bytes(AluRom(1, 0, \hFF, \h81, 2)),
    Bytes(AluRom(2, 14, \h81, \hFF, 1)),
    Bytes(ShiftRom(0, 6)), Bytes(ShiftRom(3, 14)) }

DoAluLoad ==
  /\ loads = 0
  /\ \E data \in AluRoms : Load(data)
  /\ UNCHANGED host

AluNext == DoAluLoad \/ DoTick

AluSpec == Init /\ [][AluNext]_vars

(***************************************************************************)
(*                              The claims                                 *)
(***************************************************************************)
\* the word the next tick fetches; -1 when the fetch panics
Word == IF FetchFaults THEN -1 ELSE Fetch

IsCall(op) == op >= 0 /\ Digit1(op) = 2

IsReturn(op) == op = \h00EE

\* the step is a tick that fetched a word of the given kind and did not
\* panic (the kind is tested first: it is the cheaper test)
TickOk(kind) == kind /\ Tick /\ fault' = "none"

(***************************************************************************)
(* C1.  As stated: in every reachable state that has not faulted the stack *)
(* pointer is in [0,16), that is 0 <= sp <= 15.                            *)
(***************************************************************************)
C1_SpBelow16 == fault = "none" => (0 <= sp /\ sp <= 15)

\* C1, amended: in every reachable state that has not faulted,
\* 0 <= sp <= 16; sp is the number of return addresses held, and 16 is
\* reached when all 16 slots are in use.
C1_SpAtMost16 == fault = "none" => (0 <= sp /\ sp <= STACK_SIZE)

\* all 16 slots in use, no fault
C1_Witness == fault = "none" /\ sp = STACK_SIZE /\ Len(calls) = STACK_SIZE

(***************************************************************************)
(* C2.  Call/return round trip.  calls lists, oldest first, the address    *)
(* following each call instruction that has not been returned from.  In    *)
(* every state that has not faulted the stack holds exactly these          *)
(* addresses in slots 0 .. sp-1 (so k calls followed by k returns bring sp *)
(* back to its value), a call stores the address following it at slot sp   *)
(* and leaves sp + 1, and a return sets pc to the address following the    *)
(* most recent call not yet returned from and leaves sp - 1.               *)
(***************************************************************************)
C2_StackHoldsCalls ==
  /\ sp = Len(calls)
  /\ \A k \in 1..Len(calls) : stack[k - 1] = calls[k]

C2_CallReturnRoundTrip ==
  [][ /\ fault' = "none" => C2_StackHoldsCalls'
      /\ TickOk(IsCall(Word)) =>
           /\ sp' = sp + 1
           /\ stack' = [stack EXCEPT ![sp] = pc + 2]
           /\ pc' = Word % \h1000
      /\ TickOk(IsReturn(Word)) =>
           /\ sp' = sp - 1
           /\ pc' = calls[Len(calls)]
           /\ stack' = stack
    ]_vars

\* 16 calls, then 16 returns: back at the address following the first call
C2_Witness ==
  /\ fault = "none"
  /\ IsReturn(lastOp)
  /\ sp = 0
  /\ pc = START_ADDR + 2
  /\ stack[STACK_SIZE - 1] = CallLevelAddr(STACK_SIZE - 1) + 6

(***************************************************************************)
(* C3.  Block-on-key, one step.  A tick that fetches FX0A with no key      *)
(* pressed leaves pc where it was and changes no register, memory cell,    *)
(* pixel, timer or stack slot; with a key pressed it puts the lowest       *)
(* pressed key index in Vx and leaves pc + 2.                              *)
(***************************************************************************)
IsFX0A(op) == op >= 0 /\ Digit1(op) = 15 /\ OpNN(op) = \h0A

AnyKey == \E i \in 0..(NUM_KEYS - 1) : keys[i]

C3_BlockOnKey ==
  [][ (IsFX0A(Word) /\ Tick) =>
        IF ~AnyKey
          THEN /\ pc' = pc
               /\ UNCHANGED <<ram, screen, v_reg, i_reg, sp, stack, keys,
                              dt, st, fault>>
          ELSE LET key == v_reg'[Digit2(Word)]
               IN /\ key \in 0..(NUM_KEYS - 1)
                  /\ keys[key]
                  /\ \A j \in 0..(key - 1) : ~keys[j]
                  /\ pc' = pc + 2
                  /\ fault' = "none"
    ]_vars

\* F10A took key 1 while key 0 was up, and now waits again with no key
\* pressed: the tick left pc on the instruction
C3_Witness ==
  /\ lastOp = \hF10A
  /\ pc = lastAddr
  /\ v_reg[1] = 1
  /\ ~AnyKey
  /\ fault = "none"

(***************************************************************************)
(* C5.  Timers.  tick_timers takes each timer to max(value - 1, 0), the    *)
(* one independently of the other; a tick changes the delay timer only by  *)
(* FX15 and the sound timer only by FX18, to Vx; and with dtSet (stSet)    *)
(* the value of the last FX15 (FX18) and dtCalls (stCalls) the number of   *)
(* tick_timers calls since, counted up to that value, each timer is        *)
(* max(value set - calls, 0).                                              *)
(***************************************************************************)
IsFX15(op) == op >= 0 /\ Digit1(op) = 15 /\ OpNN(op) = \h15

IsFX18(op) == op >= 0 /\ Digit1(op) = 15 /\ OpNN(op) = \h18

C5_Timers ==
  [][ /\ TickTimers => /\ dt' = Max(dt - 1, 0)
                       /\ st' = Max(st - 1, 0)
      /\ (dt' # dt /\ ~TickTimers) =>
           /\ IsFX15(Word) /\ Tick
           /\ dt' = v_reg[Digit2(Word)]
      /\ (st' # st /\ ~TickTimers) =>
           /\ IsFX18(Word) /\ Tick
           /\ st' = v_reg[Digit2(Word)]
      /\ dt' = Max(dtSet' - dtCalls', 0)
      /\ st' = Max(stSet' - stCalls', 0)
    ]_vars

\* the delay timer was set to 3 and the sound timer to 2; three calls of
\* tick_timers later both are 0
C5_Witness ==
  /\ dtSet = 3 /\ dtCalls = 3 /\ dt = 0
  /\ stSet = 2 /\ stCalls = 2 /\ st = 0
  /\ fault = "none"

(***************************************************************************)
(* C6.  Draw collision.  With targets the set of pixels the set bits of    *)
(* the sprite are drawn on, a draw that does not panic toggles exactly the *)
(* targets and leaves VF = 1 if one of them was lit before the draw and    *)
(* VF = 0 otherwise.  When the draw repeats the draw before it (the same   *)
(* sprite bytes, coordinates and I) the screen is back as it was before    *)
(* the first of the two.                                                   *)
(***************************************************************************)
IsDraw(op) == op >= 0 /\ Digit1(op) = 13

\* <<row, column>> of the set bits of the sprite a draw word reads
SetBits(op) ==
  {rc \in (0..(Digit4(op) - 1)) \X (0..7) :
     SpriteBit(ram[i_reg + rc[1]], rc[2])}

Targets(op) ==
  {PixelIdx(v_reg[Digit2(op)], v_reg[Digit3(op)], rc[2], rc[1]) :
     rc \in SetBits(op)}

SameDraw(d1, d2) ==
  /\ d1.sprite = d2.sprite
  /\ d1.x_coord = d2.x_coord
  /\ d1.y_coord = d2.y_coord
  /\ d1.i = d2.i

\* the draw just made repeats the draw before it
Redraw == Len(draws') = 2 /\ SameDraw(draws'[1], draws'[2])

C6_XorAndFlag ==
  LET targets == Targets(Word)
      before == Lit(screen)
  IN /\ Lit(screen') = (before \ targets) \cup (targets \ before)
     /\ v_reg'[15] = IF targets \cap before # {} THEN 1 ELSE 0
     /\ Redraw => Lit(screen') = draws'[1].before

\* C6, as stated: ... and the second of two equal draws sets VF = 1 whenever
\* the sprite has at least one set bit.
C6_SecondDrawAlwaysCollides ==
  [][ TickOk(IsDraw(Word)) =>
        /\ C6_XorAndFlag
        /\ (Redraw /\ SetBits(Word) # {}) => v_reg'[15] = 1
    ]_vars

\* C6, amended: ... and the second of two equal draws sets VF = 1 exactly
\* when one of the targets was unlit before the first draw.
C6_DrawCollision ==
  [][ TickOk(IsDraw(Word)) =>
        /\ C6_XorAndFlag
        /\ Redraw =>
             (v_reg'[15] = 1 <=> Targets(Word) \ draws'[1].before # {})
    ]_vars

\* the sprite drawn on the clear screen and drawn again: the screen is clear
\* again and VF = 1
C6_Witness ==
  /\ IsDraw(lastOp)
  /\ Len(draws) = 2
  /\ SameDraw(draws[1], draws[2])
  /\ draws[1].before = {}
  /\ draws[2].before # {}
  /\ Lit(screen) = {}
  /\ v_reg[15] = 1
  /\ fault = "none"

(***************************************************************************)
(* C7.  Draw coordinate wraparound.  For the sprite bit at (row, col) the  *)
(* pixel a draw toggles is ((Vx + col) mod 64) + 64 * ((Vy + row) mod 32), *)
(* an index in 0..2047: the pixels that change are exactly these, one per  *)
(* set bit, none clipped.                                                  *)
(***************************************************************************)
\* bit col (from the left) of a sprite byte
BitAt(byte, col) == (byte \div (2 ^ (7 - col))) % 2 = 1

WrappedIdx(vx, vy, row, col) == ((vx + col) % 64) + 64 * ((vy + row) % 32)

C7_Wraparound ==
  [][ TickOk(IsDraw(Word)) =>
        LET vx == v_reg[Digit2(Word)]
            vy == v_reg[Digit3(Word)]
            bits == {rc \in (0..(Digit4(Word) - 1)) \X (0..7) :
                       BitAt(ram[i_reg + rc[1]], rc[2])}
            toggled == {p \in 0..(SCREEN_SIZE - 1) : screen'[p] # screen[p]}
        IN /\ toggled = {WrappedIdx(vx, vy, rc[1], rc[2]) : rc \in bits}
           /\ Cardinality(toggled) = Cardinality(bits)
           /\ \A rc \in bits : WrappedIdx(vx, vy, rc[1], rc[2]) \in 0..2047
    ]_vars

\* rows FF, 81, 3D drawn at (63, 31) on the clear screen: row 0 lights
\* x = 63 and x = 0..6 of line 31, rows 1 and 2 are on lines 0 and 1
C7_Witness ==
  /\ IsDraw(lastOp)
  /\ Len(draws) = 1
  /\ draws[1].x_coord = 63
  /\ draws[1].y_coord = 31
  /\ draws[1].sprite = << 255, 129, 61 >>
  /\ Lit(screen) = {64 * 31 + 63} \cup {64 * 31 + x : x \in 0..6}
                     \cup {63, 6} \cup {64 + 1, 64 + 2, 64 + 3, 64 + 4, 64 + 6}
  /\ fault = "none"

(***************************************************************************)
(* C8.  Display frame.  A step that changes a pixel is a tick that fetched *)
(* DXYN or 00E0; a tick that fetched 00E0 leaves every pixel false.  So    *)
(* every other opcode, and load, tick_timers and keypress, leave all the   *)
(* pixels as they were.                                                    *)
(***************************************************************************)
IsClear(op) == op = \h00E0

C8_DisplayFrame ==
  [][ /\ screen' # screen => (IsDraw(Word) \/ IsClear(Word)) /\ Tick
      /\ (IsClear(Word) /\ Tick) =>
           \A p \in 0..(SCREEN_SIZE - 1) : screen'[p] = FALSE
    ]_vars

\* the program that runs every opcode after a draw has cleared the lit
\* screen
C8_Witness ==
  /\ IsClear(lastOp)
  /\ lastAddr = \h254
  /\ v_reg[4] \in 0..(NUM_KEYS - 1)
  /\ Lit(screen) = {}
  /\ fault = "none"

(***************************************************************************)
(* C4.  Block-on-key liveness, for the program's loop.  While pc is at an  *)
(* FX0A and no key is pressed, no step moves pc, and a tick of the loop    *)
(* completes and hands control back (the for loop counts on).  When the    *)
(* loop is about to tick with pc at an FX0A and a key pressed, then        *)
(* eventually the FX0A has been executed, pc is past it and Vx holds the   *)
(* index of a pressed key.                                                 *)
(***************************************************************************)
Waiting == fault = "none" /\ IsFX0A(Word)

Passed ==
  /\ fault = "none"
  /\ IsFX0A(lastOp)
  /\ pc = lastAddr + 2
  /\ v_reg[Digit2(lastOp)] \in 0..(NUM_KEYS - 1)
  /\ keys[v_reg[Digit2(lastOp)]]

C4_StaysWhileNoKey ==
  [][ (Waiting /\ ~AnyKey) =>
        /\ pc' = pc
        /\ Waiting'
        /\ HostTick => (tick_i' = tick_i + 1 /\ lastOp' = Word)
    ]_vars

C4_BlockOnKeyLiveness ==
  /\ C4_StaysWhileNoKey
  /\ (hpc = "tick" /\ Waiting /\ AnyKey) ~> Passed

\* key 1 was pressed while the events were handled, and the first tick of
\* the frame executed F10A and took it
C4_Witness ==
  /\ Passed
  /\ lastOp = \hF10A
  /\ hpc = "tick"
  /\ tick_i = 1
  /\ v_reg[1] = 1
  /\ ~keys[0]

(***************************************************************************)
(* C9.  Unknown opcode.  Known(op) is the list of patterns of the claim.   *)
(***************************************************************************)
Known(op) ==
  LET d1 == Digit1(op)
      d4 == Digit4(op)
      nn == OpNN(op)
  IN \/ op \in {\h00E0, \h00EE}
     \/ d1 \in {1, 2, 3, 4, 6, 7, 10, 11, 12, 13}
     \/ d1 = 5 /\ d4 = 0
     \/ d1 = 8 /\ d4 \in (0..7) \cup {14}
     \/ d1 = 9 /\ d4 = 0
     \/ d1 = 14 /\ nn \in {\h9E, \hA1}
     \/ d1 = 15 /\ nn \in {\h07, \h0A, \h15, \h18, \h1E, \h29, \h33, \h55, \h65}

Unknown(op) == op >= 0 /\ ~Known(op)

\* C9, as stated: a tick that fetches a word matching none of the listed
\* patterns ends in the unimplemented-opcode fault.
C9_UnknownFaults ==
  [][ (Unknown(Word) /\ Tick) => fault' = "unimplemented" ]_vars

\* C9, amended: a tick that fetches a word matching none of the listed
\* patterns ends in the unimplemented-opcode fault, except the word 0000,
\* which is executed as a successful step that only moves pc on by 2.
C9_UnknownFaultsButZero ==
  [][ (Unknown(Word) /\ Tick) =>
        IF Word = 0
          THEN /\ fault' = "none"
               /\ pc' = pc + 2
               /\ UNCHANGED <<ram, screen, v_reg, i_reg, sp, stack, keys,
                              dt, st>>
          ELSE fault' = "unimplemented"
    ]_vars

\* 8XY8 is next to the known 8XY7 and faults
C9_Witness ==
  /\ fault = "unimplemented"
  /\ lastOp = \h8128
  /\ lastAddr = START_ADDR

(***************************************************************************)
(* C10.  BCD store, as stated: FX33 leaves memory[I] = Vx div 100,         *)
(* memory[I+1] = (Vx div 10) mod 10 and memory[I+2] = Vx mod 10, and       *)
(* changes no other memory cell, no register and not I.                    *)
(***************************************************************************)
IsFX33(op) == op >= 0 /\ Digit1(op) = 15 /\ OpNN(op) = \h33

C10_BcdStore ==
  [][ TickOk(IsFX33(Word)) =>
        LET vx == v_reg[Digit2(Word)]
        IN /\ ram' = [ram EXCEPT ![i_reg] = vx \div 100,
                                 ![i_reg + 1] = (vx \div 10) % 10,
                                 ![i_reg + 2] = vx % 10]
           /\ UNCHANGED <<v_reg, i_reg>>
    ]_vars

\* what the code stores for Vx = 157: 255, 0, 7
C10_Stores157 ==
  /\ IsFX33(lastOp)
  /\ fault = "none"
  /\ v_reg[Digit2(lastOp)] = 157
  /\ ram[i_reg] = 255
  /\ ram[i_reg + 1] = 0
  /\ ram[i_reg + 2] = 7

(***************************************************************************)
(* C11.  Load fault.  A load of more than 4096 - 0x200 = 3584 bytes        *)
(* faults, and the memory after the call is the memory before it.          *)
(***************************************************************************)
\* the step is a call of load
LoadCall == loads' = loads + 1

C11_LoadFault ==
  [][ (LoadCall /\ Len(loaded') > 3584) =>
        /\ fault' # "none"
        /\ ram' = ram
    ]_vars

\* a program ran, then a load of 3585 bytes faulted
C11_Witness ==
  /\ fault = "bounds"
  /\ Len(loaded) = 3585
  /\ lastOp = \hF207
  /\ ram[START_ADDR + 1] = \h03
  /\ ram[RAM_SIZE - 1] = 0

(***************************************************************************)
(* C12.  Load effect and frame.  A load of at most 3584 bytes, whenever it *)
(* is called, makes memory[0x200 + k] = bytes[k] for every k below the     *)
(* length and changes no other memory cell (so not the glyphs at 0..79),   *)
(* no register, not I, pc, the stack, the stack pointer, the display, the  *)
(* keys or a timer.                                                        *)
(***************************************************************************)
C12_LoadEffect ==
  [][ (LoadCall /\ Len(loaded') <= 3584) =>
        /\ fault' = "none"
        /\ ram' = [a \in 0..4095 |->
                     IF a >= 512 /\ a - 512 < Len(loaded')
                       THEN loaded'[a - 512 + 1] ELSE ram[a]]
        /\ \A a \in 0..79 : ram'[a] = FONTSET[a + 1]
        /\ UNCHANGED <<v_reg, i_reg, pc, stack, sp, screen, keys, dt, st>>
    ]_vars

\* the timer program ran and set registers and timers, then 3584 bytes were
\* loaded up to the last cell
C12_Witness ==
  /\ fault = "none"
  /\ Len(loaded) = 3584
  /\ loads = 2
  /\ ram[RAM_SIZE - 1] = loaded[3584]
  /\ ram[START_ADDR] = 18
  /\ v_reg[0] = 3
  /\ dt > 0
  /\ keys[0]
  /\ pc > START_ADDR

(***************************************************************************)
(* C13.  Flag arithmetic, destination x # 0xF.  8XY4: Vx = (Vx + Vy) mod   *)
(* 256, VF = 1 iff Vx + Vy > 255.  8XY5: Vx = (Vx - Vy) mod 256, VF = 1    *)
(* iff Vx >= Vy.  8XY7: Vx = (Vy - Vx) mod 256, VF = 1 iff Vy >= Vx.       *)
(* 8XY6: Vx = Vx div 2, VF = old bit 0.  8XYE: Vx = (2 * Vx) mod 256, VF = *)
(* old bit 7.  7XNN, 8XY1, 8XY2 and 8XY3 leave VF as it was.               *)
(***************************************************************************)
Is8XY(op, d4) == op >= 0 /\ Digit1(op) = 8 /\ Digit4(op) = d4

Is7XNN(op) == op >= 0 /\ Digit1(op) = 7

\* the arithmetic step of a word whose destination is not VF
C13_Step(kind) == kind /\ Digit2(Word) # 15 /\ Tick

\* Vx and VF after the step
C13_Gives(result, flag) ==
  /\ v_reg'[Digit2(Word)] = result
  /\ v_reg'[15] = flag
  /\ fault' = "none"

C13_FlagArithmetic ==
  [][ LET vx == v_reg[Digit2(Word)]
          vy == v_reg[Digit3(Word)]
      IN /\ C13_Step(Is8XY(Word, 4)) =>
              C13_Gives((vx + vy) % 256, IF vx + vy > 255 THEN 1 ELSE 0)
         /\ C13_Step(Is8XY(Word, 5)) =>
              C13_Gives((vx - vy) % 256, IF vx >= vy THEN 1 ELSE 0)
         /\ C13_Step(Is8XY(Word, 7)) =>
              C13_Gives((vy - vx) % 256, IF vy >= vx THEN 1 ELSE 0)
         /\ C13_Step(Is8XY(Word, 6)) => C13_Gives(vx \div 2, vx % 2)
         /\ C13_Step(Is8XY(Word, 14)) =>
              C13_Gives((2 * vx) % 256, (vx \div 128) % 2)
         /\ C13_Step(Is7XNN(Word) \/ Is8XY(Word, 1) \/ Is8XY(Word, 2)
                       \/ Is8XY(Word, 3)) =>
              (v_reg'[15] = v_reg[15] /\ fault' = "none")
    ]_vars

\* 255 + 1 carried and left 0; now 0 - 1 has borrowed: V0 = 255, VF = 0
C13_Witness ==
  /\ lastOp = \h8015
  /\ v_reg[0] = 255
  /\ v_reg[1] = 1
  /\ v_reg[15] = 0
  /\ fault = "none"

(***************************************************************************)
(* C14.  PC advance.  PC is 0x200 at construction, and every tick that     *)
(* does not fault leaves PC at its old value plus 2, unless the word is a  *)
(* jump (1NNN, BNNN), a call (2NNN), a return (00EE) or a skip whose       *)
(* condition holds (3XNN, 4XNN, 5XY0, 9XY0, EX9E, EXA1).                   *)
(***************************************************************************)
IsJump(op) == op >= 0 /\ Digit1(op) \in {1, 11}

\* the word is a skip and its condition holds in this state
SkipHolds(op) ==
  LET vx == v_reg[Digit2(op)]
      vy == v_reg[Digit3(op)]
  IN /\ op >= 0
     /\ \/ Digit1(op) = 3 /\ vx = OpNN(op)
        \/ Digit1(op) = 4 /\ vx # OpNN(op)
        \/ Digit1(op) = 5 /\ Digit4(op) = 0 /\ vx = vy
        \/ Digit1(op) = 9 /\ Digit4(op) = 0 /\ vx # vy
        \/ Digit1(op) = 14 /\ OpNN(op) = \h9E /\ vx < 16 /\ keys[vx]
        \/ Digit1(op) = 14 /\ OpNN(op) = \hA1 /\ vx < 16 /\ ~keys[vx]

Redirects(op) == IsJump(op) \/ IsCall(op) \/ IsReturn(op) \/ SkipHolds(op)

\* C14, as stated
C14_PcAdvance ==
  /\ pc = \h200
  /\ [][ (~Redirects(Word) /\ fault' = "none" /\ Tick) => pc' = pc + 2 ]_vars

\* C14, with the wait for a key: FX0A with no key pressed leaves PC at its
\* old value, every other word that is not a jump, a call, a return or a
\* skip whose condition holds leaves PC at its old value plus 2.
C14_PcAdvanceOrWait ==
  /\ pc = \h200
  /\ [][ (~Redirects(Word) /\ fault' = "none" /\ Tick) =>
           IF IsFX0A(Word) /\ ~AnyKey THEN pc' = pc ELSE pc' = pc + 2 ]_vars

\* a skip whose condition did not hold went on to the next word
C14_Witness ==
  /\ lastOp = \h4105
  /\ v_reg[1] = 5
  /\ pc = lastAddr + 2
  /\ fault = "none"

(***************************************************************************)
(* C15.  Register conditional skips.  3XNN leaves PC = old PC + 4 iff      *)
(* Vx = NN, 4XNN iff Vx # NN, 5XY0 iff Vx = Vy, 9XY0 iff Vx # Vy, and      *)
(* PC = old PC + 2 otherwise; no register, memory cell, timer or pixel is  *)
(* changed by a skip instruction.                                          *)
(***************************************************************************)
IsRegSkip(op) ==
  /\ op >= 0
  /\ \/ Digit1(op) \in {3, 4}
     \/ Digit1(op) \in {5, 9} /\ Digit4(op) = 0

\* the condition the claim gives for the skip word
C15_Condition(op) ==
  LET vx == v_reg[Digit2(op)]
      vy == v_reg[Digit3(op)]
  IN CASE Digit1(op) = 3 -> vx = OpNN(op)
       [] Digit1(op) = 4 -> vx # OpNN(op)
       [] Digit1(op) = 5 -> vx = vy
       [] OTHER -> vx # vy

C15_RegisterSkips ==
  [][ (IsRegSkip(Word) /\ Tick) =>
        /\ fault' = "none"
        /\ pc' = IF C15_Condition(Word) THEN pc + 4 ELSE pc + 2
        /\ UNCHANGED <<v_reg, i_reg, ram, dt, st, screen>> ]_vars

\* 5010 has skipped with V0 = V1 = 3
C15_Witness ==
  /\ lastOp = \h5010
  /\ v_reg[0] = 3
  /\ v_reg[1] = 3
  /\ pc = lastAddr + 4
  /\ fault = "none"

(***************************************************************************)
(* C16.  Key skips.  For every value of Vx (0..255), EX9E completes with   *)
(* PC = old PC + 4 if Input State at index Vx is pressed and PC = old PC   *)
(* + 2 otherwise, and EXA1 completes with PC = old PC + 4 if Input State   *)
(* at index Vx is not pressed and PC = old PC + 2 otherwise; neither       *)
(* instruction changes Input State.                                        *)
(***************************************************************************)
IsEX9E(op) == op >= 0 /\ Digit1(op) = 14 /\ OpNN(op) = \h9E

IsEXA1(op) == op >= 0 /\ Digit1(op) = 14 /\ OpNN(op) = \hA1

\* Input State has the indices 0..15: no other index is a pressed key
PressedAt(idx) == idx \in DOMAIN keys /\ keys[idx]

C16_KeySkips ==
  [][ LET vx == v_reg[Digit2(Word)]
      IN /\ (IsEX9E(Word) /\ Tick) =>
              /\ fault' = "none"
              /\ pc' = IF PressedAt(vx) THEN pc + 4 ELSE pc + 2
              /\ keys' = keys
         /\ (IsEXA1(Word) /\ Tick) =>
              /\ fault' = "none"
              /\ pc' = IF ~PressedAt(vx) THEN pc + 4 ELSE pc + 2
              /\ keys' = keys
    ]_vars

(***************************************************************************)
(* C17.  Register dump and load.  FX55 copies V0..Vx to memory[I..I+x] and *)
(* changes no register, no other memory cell and not I; FX65 copies        *)
(* memory[I..I+x] into V0..Vx and changes no register above Vx, no memory  *)
(* cell and not I; so FX55 followed by FX65 with the same x and I leaves   *)
(* V0..VF as they were before the FX55.  (memory[I..I+x] is in Memory.)    *)
(***************************************************************************)
IsFX55(op) == op >= 0 /\ Digit1(op) = 15 /\ OpNN(op) = \h55

IsFX65(op) == op >= 0 /\ Digit1(op) = 15 /\ OpNN(op) = \h65

\* memory[I..I+x] of the word lies in Memory
C17_InMemory == i_reg + Digit2(Word) <= 4095

C17_DumpLoad ==
  [][ LET x == Digit2(Word)
      IN /\ (IsFX55(Word) /\ C17_InMemory /\ Tick) =>
              /\ fault' = "none"
              /\ ram' = [a \in 0..4095 |->
                           IF a >= i_reg /\ a <= i_reg + x
                             THEN v_reg[a - i_reg] ELSE ram[a]]
              /\ UNCHANGED <<v_reg, i_reg>>
         /\ (IsFX65(Word) /\ C17_InMemory /\ Tick) =>
              /\ fault' = "none"
              /\ v_reg' = [r \in 0..15 |->
                             IF r <= x THEN ram[i_reg + r] ELSE v_reg[r]]
              /\ UNCHANGED <<ram, i_reg>>
              \* the load right after the dump with the same x
              /\ (IsFX55(lastOp) /\ Digit2(lastOp) = x /\ lastAddr = pc - 2)
                   => v_reg' = v_reg
    ]_vars

\* V0 = 200 and V1 = 129 were dumped at 300 and loaded back
C17_Witness ==
  /\ lastOp = \hF165
  /\ lastAddr = \h208
  /\ v_reg[0] = 200
  /\ v_reg[1] = 129
  /\ ram[\h300] = 200
  /\ ram[\h301] = 129
  /\ fault = "none"

(***************************************************************************)
(* C20.  Flag-write order.  For 8XY4, 8XY5, 8XY6, 8XY7 and 8XYE the flag   *)
(* is written after the destination: when the destination index x is 0xF  *)
(* the final value of VF is the flag (carry, no borrow, shifted-out bit;   *)
(* always 0 or 1) and the arithmetic result is discarded.                  *)
(***************************************************************************)
\* the flag of the word, from the operands before the step
C20_Flag(op) ==
  LET vx == v_reg[Digit2(op)]
      vy == v_reg[Digit3(op)]
  IN CASE Digit4(op) = 4 -> IF vx + vy > 255 THEN 1 ELSE 0
       [] Digit4(op) = 5 -> IF vx >= vy THEN 1 ELSE 0
       [] Digit4(op) = 6 -> vx % 2
       [] Digit4(op) = 7 -> IF vy >= vx THEN 1 ELSE 0
       [] OTHER -> (vx \div 128) % 2

C20_FlagWrittenLast ==
  [][ ( /\ \E d4 \in {4, 5, 6, 7, 14} : Is8XY(Word, d4)
        /\ Digit2(Word) = 15
        /\ Tick ) =>
        /\ fault' = "none"
        /\ v_reg'[15] = C20_Flag(Word)
        /\ v_reg'[15] \in {0, 1}
        /\ \A r \in 0..14 : v_reg'[r] = v_reg[r] ]_vars

\* VF + 64 carried with the sum 0: VF holds the carry, not the sum
C20_Witness ==
  /\ lastOp = \h8F14
  /\ v_reg[1] = 64
  /\ v_reg[15] = 1
  /\ fault = "none"

(***************************************************************************)
(* C18.  Key mapping.  key2btn maps the 16 mapped keys (1 2 3 4 / Q W E R  *)
(* / A S D F / Z X C V) to distinct indices covering 0x0..0xF and every    *)
(* other key to None; so every index the host passes to keypress is in     *)
(* 0..15 and keypress never faults on host input.                          *)
(***************************************************************************)
C18_Mapping ==
  /\ \A k1, k2 \in MappedKeycodes :
       k1 # k2 => key2btn(k1) # key2btn(k2)
  /\ {key2btn(k) : k \in MappedKeycodes} = {<<i>> : i \in 0..15}
  /\ \A k \in Keycodes \ MappedKeycodes : key2btn(k) = << >>

\* a key event changes at most the key state of the button of a mapped key
C18_HostInput ==
  /\ fault' = "none"
  /\ \/ keys' = keys
     \/ \E k \in MappedKeycodes, pressed \in BOOLEAN :
          /\ key2btn(k)[1] \in 0..15
          /\ keys' = [keys EXCEPT ![key2btn(k)[1]] = pressed]

C18_KeyMapping == [](C18_Mapping) /\ [][HostKeyboard => C18_HostInput]_vars

\* Num4 and V are held: buttons C and F are down
C18_Witness ==
  /\ keys[12]
  /\ keys[15]
  /\ KeysDown = 2
  /\ hpc = "poll"
  /\ fault = "none"

(***************************************************************************)
(* C19.  Host cadence.  After the single load, every iteration of the host *)
(* loop performs, in this order, the pending keypress calls, then exactly  *)
(* 10 tick calls, then exactly one tick_timers call, then one read of the  *)
(* Display Buffer: between two tick_timers calls there are exactly 10      *)
(* ticks, Input State does not change between the ticks of a frame, and    *)
(* load is never called again.  Each step is the call of its place:        *)
(***************************************************************************)
\* handling events: a keypress call, the end of the events, or the quit
C19_Events ==
  /\ hpc' \in {"poll", "tick", "quit"}
  /\ UNCHANGED <<pc, ram, screen, v_reg, i_reg, sp, stack, dt, st, loads>>
  /\ hpc' # "poll" => keys' = keys
  /\ hpc' = "tick" => tick_i' = 0

\* one of the 10 ticks: tick_i ticks of this frame are done
C19_FrameTick ==
  /\ Tick
  /\ keys' = keys
  /\ tick_i < 10
  /\ tick_i' = tick_i + 1
  /\ hpc' = IF tick_i' = 10 THEN "timers" ELSE "tick"

\* the tick_timers call, after the 10th tick
C19_FrameTimers ==
  /\ TickTimers
  /\ tick_i = 10
  /\ hpc' = "draw"

\* the read of the Display Buffer
C19_FrameDraw ==
  /\ UNCHANGED <<machine, fault, loads>>
  /\ hpc' = "poll"

C19_HostCadence ==
  [][ /\ LoadCall => (hpc = "new" /\ loads = 0 /\ hpc' = "poll")
      /\ hpc = "new" => LoadCall
      /\ hpc = "poll" => C19_Events
      /\ hpc = "tick" => C19_FrameTick
      /\ hpc = "timers" => C19_FrameTimers
      /\ hpc = "draw" => C19_FrameDraw
      /\ hpc # "quit"
    ]_vars

\* the first frame of the timer program: 10 ticks, then the timers stepped
C19_Witness ==
  /\ hpc = "draw"
  /\ tick_i = 10
  /\ lastOp = \hF118
  /\ dt = 2
  /\ st = 1
  /\ loads = 1
  /\ fault = "none"

(***************************************************************************)
(* C21.  PC arithmetic stays in range.  In every reachable state no 16-bit *)
(* PC computation overflows or underflows: PC never exceeds 0x10FE (the    *)
(* maximum of BNNN, V0 + NNN), the increments PC + 1 and PC + 2 of fetch   *)
(* and the skip PC + 2 never pass 0xFFFF, the FX0A rewind PC - 2 is never  *)
(* applied to a PC below 2, and a PC of 4095 or more can only end in a     *)
(* memory bounds fault at the next fetch.                                  *)
(***************************************************************************)
C21_PcBound == pc >= 0 /\ pc <= \h10FE

\* the PC values a tick computes: fetch's index PC + 1 and its PC + 2, then a
\* skip's PC + 2 or the rewind's PC - 2, applied to the advanced PC
C21_TickInRange ==
  LET fetched == pc + 2
  IN /\ pc + 1 <= \hFFFF
     /\ fetched <= \hFFFF
     /\ fetched + 2 <= \hFFFF
     /\ IsFX0A(Word) => fetched >= 2
     /\ pc' >= 0 /\ pc' <= \hFFFF

\* at 4095 or beyond nothing moves the PC and a tick is a bounds fault
C21_PastTheEnd ==
  /\ pc' = pc
  /\ fault' = "bounds" \/ ~Tick

C21_PcInRange ==
  /\ [](C21_PcBound)
  /\ [][ /\ C21_TickInRange \/ ~Tick
         /\ pc >= 4095 => C21_PastTheEnd ]_vars

\* BFFF with V0 = 255 has jumped to 10FE, and the next tick has faulted
C21_Witness ==
  /\ pc = \h10FE
  /\ lastOp = \hBFFF
  /\ v_reg[0] = 255
  /\ fault = "bounds"

=============================================================================
